---- MODULE Spec2Model ----
(***************************************************************************)
(* A model of testfixtures/logcapture.py: the LogCapture handler, its      *)
(* process-wide registry, and the part of the logging framework it swaps   *)
(* itself into (per-channel level and handler list, dispatch of a record). *)
(***************************************************************************)
EXTENDS Integers, Sequences, FiniteSets, TLC

(* ------------------------------------------------------------------ *)
(* Bounds of the model.                                                *)
(* ------------------------------------------------------------------ *)
\* A record is logged while no buffer holds this many.
MaxRecords == 2
\* Number of times the test reconfigures a logger in a run.
MaxReconf == 1

(* ------------------------------------------------------------------ *)
(* Values.                                                             *)
(* ------------------------------------------------------------------ *)
\* The LogCapture objects of a run.
Instances == {"L1", "L2"}
\* A handler that is not a LogCapture (a prior configuration of a logger).
H0 == "h0"
\* Python's None.
None == "None"
\* The loggers: the root logger and its child "a".
ROOT == "root"
Channels == {ROOT, "a"}
\* What a caller can pass as one logger name.
NameVals == {None, "a"}
\* The tuples of names a caller passes: none, one, two loggers in either
\* order, and a logger named twice.
NameTuples == {<< >>, <<None>>, <<"a">>, <<None, "a">>, <<"a", None>>, <<"a", "a">>}

\* The two classes, and the class a class inherits its attributes from.
Classes == {"LogCapture", "LogCaptureForDecorator"}
Base(c) == IF c = "LogCaptureForDecorator" THEN "LogCapture" ELSE None

\* logging's numeric levels.
NOTSET == 0
DEBUG == 10
WARNING == 30
\* The default of the constructor's level parameter.
DefaultLevel == 1
\* Levels a capture is constructed with.
CaptureLevels == {DefaultLevel, WARNING}
\* Levels of a logger's prior configuration.
PriorLevels == {NOTSET, WARNING}
\* Severities of the records logged.
Severities == {DEBUG, WARNING}

\* The empty dict.
EmptyDict == [k \in {} |-> 0]
\* d[k] = v of a dict.
DictSet(d, k, v) == [x \in (DOMAIN d) \cup {k} |-> IF x = k THEN v ELSE d[x]]

VARIABLES
  level,        \* logger.level of each logger
  handlers,     \* logger.handlers of each logger
  instances,    \* LogCapture.instances, the registry
  fwHandlers,   \* logging._handlers / logging._handlerList
  made,         \* the objects constructed so far
  names,        \* self.names
  lvl,          \* self.level
  oldlevels,    \* self.oldlevels
  oldhandlers,  \* self.oldhandlers
  records,      \* self.records
  argobj,       \* the value of the mutable object records carry as argument
  nreconf,      \* reconfigurations so far
  scope,        \* the objects inside a with block
  swapped,      \* history: install() ran and no effective uninstall() since
  mark,         \* history: Len(records) at the last install() or clear()
  sent,         \* history: the records dispatched to the object's loggers
                \*          since its last install(), as rendered then
  clean,        \* history: nobody else touched the loggers since install()
  orig,         \* history: each configured logger's level and handlers when
                \*          the object went into the registry
  twice,        \* history: the objects installed again while in the registry
  last,         \* history: the last operation, its inputs and its result
  cls,          \* self.__class__ of each object
  atexit_setup, \* the classes whose own atexit_setup attribute is True
  hooks,        \* the callbacks given to atexit.register, in order: the class
                \*   each bound atexit method is bound to
  calling,      \* the objects whose wrapped function is running
  warned,       \* the warnings issued at process exit: the names each lists
  exited,       \* the process has run its exit hooks
  reinstalled,  \* history: some install() ran on an object in the registry
  nest          \* history: how far the last operations are an install() of
                \*   a, an install() of b on a logger of a, an uninstall()
                \*   of b and an uninstall() of a

vars == <<level, handlers, instances, fwHandlers, made, names, lvl, oldlevels,
          oldhandlers, records, argobj, nreconf, scope, swapped, mark,
          sent, clean, orig, twice, last, cls, atexit_setup, hooks, calling,
          warned, exited, reinstalled, nest>>

(* ------------------------------------------------------------------ *)
(* The logging framework, as far as LogCapture uses it.                *)
(* ------------------------------------------------------------------ *)
\* logging.getLogger(name): no name is the root logger.
getLogger(name) == IF name = None THEN ROOT ELSE name

\* logger.parent, None for the root logger.
Parent(ch) == IF ch = ROOT THEN None ELSE ROOT

\* The logger and its ancestors, from the logger up (callHandlers' walk).
Chain(ch) == IF ch = ROOT THEN <<ROOT>> ELSE <<ch, ROOT>>

\* Logger.getEffectiveLevel: the first non-zero level up the hierarchy.
RECURSIVE getEffectiveLevel(_, _)
getEffectiveLevel(lv, ch) ==
  IF lv[ch] # NOTSET THEN lv[ch]
  ELSE IF Parent(ch) = None THEN NOTSET
  ELSE getEffectiveLevel(lv, Parent(ch))

\* logging.getLevelName for the levels used.
getLevelName(n) ==
  CASE n = DEBUG -> "DEBUG"
    [] n = WARNING -> "WARNING"
    [] OTHER -> "Level " \o ToString(n)

\* The message template of the records logged, and the object passed as its
\* argument: a reference to one mutable object, whose value is argobj.
Template == "m%s"
ArgRef == <<"obj">>
NoArgs == << >>
\* The % operator on the template.
Format(msg, v) == "m" \o ToString(v)

\* The loggers the object was configured with.
ChannelsOf(ns) == {getLogger(ns[k]) : k \in 1..Len(ns)}

(* ------------------------------------------------------------------ *)
(* The program state the methods read and write, as one record, so that *)
(* a method calling another is the composition of the two.             *)
(* ------------------------------------------------------------------ *)
State == [level |-> level, handlers |-> handlers, instances |-> instances,
          fwHandlers |-> fwHandlers, names |-> names, lvl |-> lvl,
          oldlevels |-> oldlevels, oldhandlers |-> oldhandlers,
          records |-> records, swapped |-> swapped, cls |-> cls,
          atexit_setup |-> atexit_setup, hooks |-> hooks]

\* The body of install()'s loop for one name (lines 65-69).
installName(S, i, name) ==
  LET ch == getLogger(name) IN
  [S EXCEPT !.oldlevels[i] = DictSet(@, name, S.level[ch]),
            !.oldhandlers[i] = DictSet(@, name, S.handlers[ch]),
            !.level[ch] = S.lvl[i],
            !.handlers[ch] = <<i>>]

\* install()'s loop over self.names, in order.
RECURSIVE installLoop(_, _, _)
installLoop(S, i, ns) ==
  IF ns = << >> THEN S
  ELSE installLoop(installName(S, i, Head(ns)), i, Tail(ns))

\* self.__class__.atexit_setup read: the class's own attribute, or else the
\* one of the class it inherits from.
getattr_atexit_setup(S, c) ==
  S.atexit_setup[c] \/ (Base(c) # None /\ S.atexit_setup[Base(c)])

\* Lines 71-73: register the audit, bound to the object's class, unless the
\* class's atexit_setup reads True; then set it on the object's class.
setup_atexit(S, i) ==
  IF getattr_atexit_setup(S, S.cls[i]) THEN S
  ELSE [S EXCEPT !.hooks = Append(@, S.cls[i]), !.atexit_setup[S.cls[i]] = TRUE]

\* install() that does nothing for an object already in the registry.
install_guarded(S, i) ==
  IF i \in S.instances THEN S
  ELSE LET T == installLoop(S, i, S.names[i]) IN
       setup_atexit([T EXCEPT !.instances = @ \cup {i}, !.swapped[i] = TRUE], i)

\* install() that does not add the object to the registry.
install_unregistered(S, i) ==
  setup_atexit([installLoop(S, i, S.names[i]) EXCEPT !.swapped[i] = TRUE], i)

\* install(): the loop, then the registry, then the audit.
install(S, i) ==
  LET T == installLoop(S, i, S.names[i]) IN
  setup_atexit([T EXCEPT !.instances = @ \cup {i}, !.swapped[i] = TRUE], i)

\* The body of uninstall()'s loop for one name (lines 86-92).
uninstallName(S, i, name) ==
  LET ch == getLogger(name) IN
  [S EXCEPT !.level[ch] = S.oldlevels[i][name],
            !.handlers[ch] = S.oldhandlers[i][name],
            !.fwHandlers = @ \ {i}]

RECURSIVE uninstallLoop(_, _, _)
uninstallLoop(S, i, ns) ==
  IF ns = << >> THEN S
  ELSE uninstallLoop(uninstallName(S, i, Head(ns)), i, Tail(ns))

\* uninstall() that also empties the buffer.
uninstall_clearing(S, i) ==
  IF i \in S.instances
  THEN LET T == uninstallLoop(S, i, S.names[i]) IN
       [T EXCEPT !.instances = @ \ {i}, !.swapped[i] = FALSE, !.records[i] = << >>]
  ELSE S

\* uninstall() guarded by the saved state instead of the registry.
uninstall_ifSaved(S, i) ==
  IF DOMAIN S.oldlevels[i] # {}
  THEN LET T == uninstallLoop(S, i, S.names[i]) IN
       [T EXCEPT !.instances = @ \ {i}, !.swapped[i] = FALSE]
  ELSE S

\* uninstall(): nothing unless the object is in the registry.
uninstall(S, i) ==
  IF i \in S.instances
  THEN LET T == uninstallLoop(S, i, S.names[i]) IN
       [T EXCEPT !.instances = @ \ {i}, !.swapped[i] = FALSE]
  ELSE S

\* uninstall_all(): uninstall() of each object of a copy of the registry,
\* in the order the set yields them.
RECURSIVE uninstallEach(_, _)
uninstallEach(S, order) ==
  IF order = << >> THEN S
  ELSE uninstallEach(uninstall(S, Head(order)), Tail(order))

\* The orders in which a set can be iterated.
Orders(set) ==
  {o \in [1..Cardinality(set) -> set] : \A a \in set : \E k \in DOMAIN o : o[k] = a}

\* clear() that empties nothing.
clear_nothing(S, i) == S

\* clear().
clear(S, i) == [S EXCEPT !.records[i] = << >>]

\* __init__: a names argument that is not a tuple (None, one string) becomes
\* a 1-tuple. isTuple is isinstance(names, tuple).
init(S, i, isTuple, arg, inst, lv) ==
  LET ns == IF isTuple THEN arg ELSE <<arg>>
      A == [S EXCEPT !.fwHandlers = @ \cup {i}, !.names[i] = ns, !.lvl[i] = lv,
                     !.oldlevels[i] = EmptyDict, !.oldhandlers[i] = EmptyDict]
      B == clear(A, i)
  IN IF inst THEN install(B, i) ELSE B

\* log_capture(*names, level=...): names or None, install=False.
log_capture(S, i, ns, lv) ==
  LET C == [S EXCEPT !.cls[i] = "LogCaptureForDecorator"] IN
  IF ns = << >> THEN init(C, i, FALSE, None, FALSE, lv)
  ELSE init(C, i, TRUE, ns, FALSE, lv)

\* r.getMessage(): the template merged with the arguments as they are now.
getMessage(r, obj) == IF r.args = NoArgs THEN r.msg ELSE Format(r.msg, obj)

\* actual(): one triple per record.
actual(recs, obj) ==
  [k \in 1..Len(recs) |->
     <<recs[k].name, getLevelName(recs[k].levelno), getMessage(recs[k], obj)>>]

\* testfixtures.comparison.compare: equal or an AssertionError.
compare(x, y) == IF x = y THEN "ok" ELSE "AssertionError"

\* The entries of a sequence, without their order.
Entries(seq) == {seq[k] : k \in DOMAIN seq}

\* check() that compares the entries whatever their order.
check_unordered(recs, obj, expected) ==
  compare(Entries(expected), Entries(actual(recs, obj)))

\* check(*expected).
check(recs, obj, expected) == compare(expected, actual(recs, obj))

\* __enter__: returns self and does nothing else.
enter(S, i) == S

\* __exit__ that leaves the object installed.
exit_nothing(S, i) == S

\* __exit__: self.uninstall().
exit(S, i) == uninstall(S, i)

\* cls.atexit(): nothing when the registry is empty, else one warning that
\* lists the names of each object in the registry. The result is the
\* warnings issued: none or one.
atexit(S) ==
  IF S.instances # {} THEN <<[i \in S.instances |-> S.names[i]]>> ELSE << >>

\* The process ends: every callback registered with atexit.register runs.
RECURSIVE run_exitfuncs(_, _)
run_exitfuncs(S, hs) ==
  IF hs = << >> THEN << >> ELSE atexit(S) \o run_exitfuncs(S, Tail(hs))

\* LogCaptureForDecorator.install: LogCapture.install, and the object is
\* returned (to be passed to the wrapped function).
installForDecorator(S, i) == install(S, i)

\* testfixtures.utils.wrap(l.install, l.uninstall): a call of the wrapped
\* function runs l.install(), then the function, then l.uninstall() in a
\* finally clause.
wrap_before(S, i) == installForDecorator(S, i)
wrap_after(S, i) == uninstall(S, i)

\* Write the record's fields back to the variables.
Store(S) ==
  /\ level' = S.level
  /\ handlers' = S.handlers
  /\ instances' = S.instances
  /\ fwHandlers' = S.fwHandlers
  /\ names' = S.names
  /\ lvl' = S.lvl
  /\ oldlevels' = S.oldlevels
  /\ oldhandlers' = S.oldhandlers
  /\ records' = S.records
  /\ swapped' = S.swapped
  /\ cls' = S.cls
  /\ atexit_setup' = S.atexit_setup
  /\ hooks' = S.hooks

(* ------------------------------------------------------------------ *)
(* History: what the last operation was, and what it was given.        *)
(* ------------------------------------------------------------------ *)
\* The level and handlers of the loggers in chs.
Snap(chs) == [ch \in chs |-> [level |-> level[ch], handlers |-> handlers[ch]]]
Op(op, i, exp, res, pre) == [op |-> op, i |-> i, exp |-> exp, res |-> res, pre |-> pre]
Other == Op("other", "-", "-", "-", EmptyDict)

\* No install() of one object, install() of another on one of its loggers,
\* and their uninstall() in the opposite order is under way.
Idle == [ph |-> 0, a |-> "-", b |-> "-", pre |-> EmptyDict]

\* The triples the object was sent since its last install() or clear(), as
\* they were rendered when logged.
Window(i) ==
  [k \in 1..(Len(records[i]) - mark[i]) |->
     LET r == records[i][mark[i] + k] IN <<r.name, getLevelName(r.levelno), r.snap>>]

\* The handlers a record logged on ch is passed to, in order.
RECURSIVE Receivers(_, _)
Receivers(hs, chain) ==
  IF chain = << >> THEN << >> ELSE hs[Head(chain)] \o Receivers(hs, Tail(chain))

\* n copies of r.
Copies(r, n) == [k \in 1..n |-> r]

\* The occurrences of i in a sequence.
Count(seq, i) == Cardinality({k \in DOMAIN seq : seq[k] = i})

\* The registered objects were configured with pairwise disjoint loggers and
\* each was installed once.
Disjoint ==
  /\ \A i \in instances, j \in instances :
       i # j => ChannelsOf(names[i]) \cap ChannelsOf(names[j]) = {}
  /\ twice = {}

\* For each logger of a registered object, its level and handlers when that
\* object was installed.
Originals ==
  [ch \in UNION {DOMAIN orig[i] : i \in instances} |->
     orig[CHOOSE i \in instances : ch \in DOMAIN orig[i]][ch]]

(* ------------------------------------------------------------------ *)
(* Actions.                                                            *)
(* ------------------------------------------------------------------ *)
Init ==
  /\ level \in [Channels -> PriorLevels]
  /\ handlers \in [Channels -> {<< >>, <<H0>>}]
  /\ instances = {}
  /\ fwHandlers = {}
  /\ made = {}
  /\ names = [i \in Instances |-> << >>]
  /\ lvl = [i \in Instances |-> DefaultLevel]
  /\ oldlevels = [i \in Instances |-> EmptyDict]
  /\ oldhandlers = [i \in Instances |-> EmptyDict]
  /\ records = [i \in Instances |-> << >>]
  /\ argobj = 1
  /\ nreconf = 0
  /\ scope = {}
  /\ swapped = [i \in Instances |-> FALSE]
  /\ mark = [i \in Instances |-> 0]
  /\ sent = [i \in Instances |-> << >>]
  /\ clean = {}
  /\ orig = [i \in Instances |-> EmptyDict]
  /\ twice = {}
  /\ last = Other
  /\ cls = [i \in Instances |-> "LogCapture"]
  /\ atexit_setup = [c \in Classes |-> FALSE]
  /\ hooks = << >>
  /\ calling = {}
  /\ warned = << >>
  /\ exited = FALSE
  /\ reinstalled = FALSE
  /\ nest = Idle

\* The loggers as logging.basicConfig() leaves them: the root logger at
\* WARNING with one handler, the logger "a" with no level and no handler.
BasicLevel == [ch \in Channels |-> IF ch = ROOT THEN WARNING ELSE NOTSET]
BasicHandlers == [ch \in Channels |-> IF ch = ROOT THEN <<H0>> ELSE << >>]

InitBasic ==
  /\ Init
  /\ level = BasicLevel
  /\ handlers = BasicHandlers

\* The history of an install() of i, configured with ns.
InstallMarks(i, ns) ==
  /\ mark' = [mark EXCEPT ![i] = Len(records[i])]
  /\ sent' = [sent EXCEPT ![i] = << >>]
  /\ clean' = {i}
  /\ orig' = IF i \in instances THEN orig
             ELSE [orig EXCEPT ![i] = Snap(ChannelsOf(ns))]
  /\ twice' = IF i \in instances THEN twice \cup {i} ELSE twice
  /\ reinstalled' = (reinstalled \/ i \in instances)
  /\ nest' = IF /\ nest.ph = 1 /\ i # nest.a /\ i \notin instances
                /\ ChannelsOf(ns) \cap ChannelsOf(names[nest.a]) # {}
             THEN [nest EXCEPT !.ph = 2, !.b = i]
             ELSE IF i \notin instances
             THEN [ph |-> 1, a |-> i, b |-> "-", pre |-> Snap(ChannelsOf(ns))]
             ELSE Idle

InstallHistory(i, ns) ==
  /\ InstallMarks(i, ns)
  /\ last' = Op("install", i, "-", "ok", Snap(ChannelsOf(ns)))

\* The history of an uninstall() of i.
UninstallHistory(i) ==
  /\ sent' = [sent EXCEPT ![i] = << >>]
  /\ clean' = IF i \in instances THEN {} ELSE clean
  /\ orig' = [orig EXCEPT ![i] = EmptyDict]
  /\ twice' = twice \ {i}
  /\ reinstalled' = reinstalled
  /\ nest' = IF nest.ph = 2 /\ i = nest.b THEN [nest EXCEPT !.ph = 3]
             ELSE IF nest.ph = 3 /\ i = nest.a THEN [nest EXCEPT !.ph = 4]
             ELSE Idle

\* LogCapture(names, install, level)
Construct(i, isTuple, arg, inst, lv) ==
  /\ i \notin made
  /\ Store(init([State EXCEPT !.cls[i] = "LogCapture"], i, isTuple, arg, inst, lv))
  /\ made' = made \cup {i}
  /\ IF inst
     THEN InstallHistory(i, IF isTuple THEN arg ELSE <<arg>>)
     ELSE /\ last' = Op("construct", i, "-", "ok", EmptyDict)
          /\ UNCHANGED <<mark, sent, clean, orig, twice,
                 reinstalled, nest>>
  /\ UNCHANGED <<calling, warned, exited, nreconf, argobj, scope>>

\* l = log_capture(*names, level=lv): the object the decorator installs.
Decorate(i, ns, lv) ==
  /\ i \notin made
  /\ Store(log_capture(State, i, ns, lv))
  /\ made' = made \cup {i}
  /\ last' = Op("construct", i, "-", "ok", EmptyDict)
  /\ UNCHANGED <<calling, warned, exited, nreconf, argobj, scope, mark, sent, clean, orig, twice,
                 reinstalled, nest>>

\* i.install()
Install(i) ==
  /\ i \in made
  /\ Store(install(State, i))
  /\ InstallHistory(i, names[i])
  /\ UNCHANGED <<calling, warned, exited, nreconf, made, argobj, scope>>

\* i.uninstall()
Uninstall(i) ==
  /\ i \in made
  /\ Store(uninstall(State, i))
  /\ UninstallHistory(i)
  /\ last' = Op("uninstall", i, IF i \in twice THEN "twice" ELSE "once",
                IF i \in instances
                THEN IF last.op = "install" /\ last.i = i THEN "roundtrip" ELSE "ok"
                ELSE "noop",
                IF last.op = "install" /\ last.i = i THEN last.pre ELSE EmptyDict)
  /\ UNCHANGED <<calling, warned, exited, nreconf, made, argobj, scope, mark>>

\* LogCapture.uninstall_all()
UninstallAll(order) ==
  /\ Store(uninstallEach(State, order))
  /\ sent' = [i \in Instances |-> << >>]
  /\ clean' = {}
  /\ orig' = [i \in Instances |-> EmptyDict]
  /\ twice' = {}
  /\ reinstalled' = reinstalled
  /\ nest' = Idle
  /\ last' = Op("uninstall_all", "-", order,
                IF Disjoint THEN "disjoint" ELSE "overlap",
                IF Disjoint THEN Originals ELSE EmptyDict)
  /\ UNCHANGED <<calling, warned, exited, nreconf, made, argobj, scope, mark>>

\* i.clear()
Clear(i) ==
  /\ i \in made
  /\ Store(clear(State, i))
  /\ mark' = [mark EXCEPT ![i] = 0]
  /\ sent' = [sent EXCEPT ![i] = << >>]
  /\ last' = Op("clear", i, IF records[i] = << >> THEN "empty" ELSE "nonempty",
                check(clear(State, i).records[i], argobj, << >>), EmptyDict)
  /\ UNCHANGED <<calling, warned, exited, nreconf, made, argobj, scope, clean, orig, twice,
                 reinstalled, nest>>

\* logging.getLogger(ch).log(sev, Template, *args): the record is made if the
\* logger is enabled for sev, and passed to each handler of the logger and
\* of its ancestors whose level admits it; a LogCapture's emit() appends it.
Log(ch, sev, args) ==
  /\ \A i \in Instances : Len(records[i]) < MaxRecords
  /\ LET enabled == sev >= getEffectiveLevel(level, ch)
         msg == IF args = NoArgs THEN Template ELSE Format(Template, argobj)
         r == [name |-> ch, levelno |-> sev, msg |-> Template, args |-> args,
               snap |-> msg]
         to == Receivers(handlers, Chain(ch))
     IN /\ records' = [i \in Instances |->
                         IF enabled /\ sev >= lvl[i]
                         THEN records[i] \o Copies(r, Count(to, i))
                         ELSE records[i]]
        /\ sent' = [i \in Instances |->
                      IF /\ i \in instances
                         /\ i \in clean
                         /\ sev >= lvl[i]
                         /\ \E k \in DOMAIN Chain(ch) : Chain(ch)[k] \in ChannelsOf(names[i])
                         /\ (enabled \/ ch \in ChannelsOf(names[i]))
                      THEN Append(sent[i], <<ch, getLevelName(sev), msg>>)
                      ELSE sent[i]]
  /\ last' = Op("log", "-", ch, getLevelName(sev), EmptyDict)
  /\ UNCHANGED <<cls, atexit_setup, hooks, calling, warned, exited,
                 nreconf, level, handlers, instances, fwHandlers, made, names, lvl,
                 oldlevels, oldhandlers, argobj, scope, swapped, mark, clean,
                 orig, twice,
                 reinstalled, nest>>

\* The object passed as a record's argument is changed by its owner.
MutateArg ==
  /\ argobj' = 3 - argobj
  /\ last' = Other
  /\ UNCHANGED <<cls, atexit_setup, hooks, calling, warned, exited,
                 nreconf, level, handlers, instances, fwHandlers, made, names, lvl,
                 oldlevels, oldhandlers, records, scope, swapped,
                 mark, sent, clean, orig, twice,
                 reinstalled, nest>>

\* Values an expected triple can hold in place of the captured one.
AltNames == {ROOT, "a"}
AltLevels == {"DEBUG", "WARNING"}
AltMessages == {"m1", "m2"}
AltEntries == {<<"a", "WARNING", "m1">>}

\* seq with the entry at k replaced by e.
Replaced(seq, k, e) == [seq EXCEPT ![k] = e]
\* seq with the entries at k and l exchanged.
Swapped(seq, k, l) == [seq EXCEPT ![k] = seq[l], ![l] = seq[k]]
\* seq with e put after its first p entries.
Inserted(seq, p, e) == SubSeq(seq, 1, p) \o <<e>> \o SubSeq(seq, p + 1, Len(seq))
\* seq without its k-th entry.
Removed(seq, k) == SubSeq(seq, 1, k - 1) \o SubSeq(seq, k + 1, Len(seq))

\* The ways an expected sequence is drawn from the captured one.
Kinds == {"same", "window", "name", "level", "message", "order", "extra", "missing"}
AlterKinds == Kinds \ {"same", "window"}

\* The sequences that are seq altered in one way of the kind.
Altered(kind, seq) ==
  (CASE kind = "name" ->
          {Replaced(seq, k, <<n, seq[k][2], seq[k][3]>>) : k \in DOMAIN seq, n \in AltNames}
     [] kind = "level" ->
          {Replaced(seq, k, <<seq[k][1], l, seq[k][3]>>) : k \in DOMAIN seq, l \in AltLevels}
     [] kind = "message" ->
          {Replaced(seq, k, <<seq[k][1], seq[k][2], m>>) : k \in DOMAIN seq, m \in AltMessages}
     [] kind = "order" ->
          {Swapped(seq, k, l) : k \in DOMAIN seq, l \in DOMAIN seq \ {1}}
     [] kind = "extra" ->
          {Inserted(seq, p, e) : p \in 0..Len(seq), e \in AltEntries}
     [] kind = "missing" ->
          {Removed(seq, k) : k \in DOMAIN seq}) \ {seq}

\* The expected sequences of a kind, for object i as it is.
Expected(kind, i) ==
  CASE kind = "same" -> {actual(records[i], argobj)}
    [] kind = "window" -> {Window(i)}
    [] OTHER -> Altered(kind, actual(records[i], argobj))

\* i.check(*expected)
Check(i, kind, expected) ==
  /\ i \in made
  /\ last' = Op("check", i, kind, check(records[i], argobj, expected), EmptyDict)
  /\ UNCHANGED <<cls, atexit_setup, hooks, calling, warned, exited,
                 nreconf, level, handlers, instances, fwHandlers, made, names, lvl,
                 oldlevels, oldhandlers, records, argobj, scope,
                 swapped, mark, sent, clean, orig, twice,
                 reinstalled, nest>>

\* with i as x: __enter__ returns the object.
Enter(i) ==
  /\ i \in made
  /\ scope = {}
  /\ scope' = scope \cup {i}
  /\ Store(enter(State, i))
  /\ last' = Op("enter", i, "-", i, EmptyDict)
  /\ UNCHANGED <<calling, warned, exited, nreconf, made, argobj, mark, sent, clean, orig, twice,
                 reinstalled, nest>>

\* The with block ends, by its last statement or by an exception: __exit__
\* uninstalls and returns None, so an exception goes on to the caller.
Exit(i, exc) ==
  /\ i \in scope
  /\ scope' = scope \ {i}
  /\ Store(exit(State, i))
  /\ UninstallHistory(i)
  /\ last' = Op("exit", i, IF i \in instances THEN "installed" ELSE "not installed",
                IF exc THEN "raised" ELSE "ok", EmptyDict)
  /\ UNCHANGED <<calling, warned, exited, nreconf, made, argobj, mark>>

\* The function decorated with i = log_capture(...) is called: l.install()
\* runs before its body.
Call(i) ==
  /\ i \in made
  /\ cls[i] = "LogCaptureForDecorator"
  /\ i \notin calling
  /\ calling' = calling \cup {i}
  /\ Store(wrap_before(State, i))
  /\ InstallMarks(i, names[i])
  /\ last' = Op("call", i, "-", "ok", Snap(ChannelsOf(names[i])))
  /\ UNCHANGED <<warned, exited, nreconf, made, argobj, scope>>

\* The body of the decorated function ends, by a return or by an exception
\* that goes on to the caller: l.uninstall() runs either way.
Return(i, exc) ==
  /\ i \in calling
  /\ calling' = calling \ {i}
  /\ Store(wrap_after(State, i))
  /\ UninstallHistory(i)
  /\ last' = Op("return", i, IF exc THEN "raised" ELSE "returned", "ok", orig[i])
  /\ UNCHANGED <<warned, exited, nreconf, made, argobj, scope, mark>>

\* The process ends.
AtExit ==
  /\ ~exited
  /\ exited' = TRUE
  /\ warned' = run_exitfuncs(State, hooks)
  /\ last' = Op("exit hooks", "-", "-", "ok", EmptyDict)
  /\ UNCHANGED <<level, handlers, instances, fwHandlers, made, names, lvl,
                 oldlevels, oldhandlers, records, argobj, nreconf, scope,
                 swapped, mark, sent, clean, orig, twice, reinstalled, nest, cls,
                 atexit_setup,
                 hooks, calling>>

\* The test reconfigures a logger: logger.setLevel(l)
SetLevel(ch, l) ==
  /\ level[ch] # l
  /\ nreconf < MaxReconf
  /\ nreconf' = nreconf + 1
  /\ level' = [level EXCEPT ![ch] = l]
  /\ clean' = {}
  /\ last' = Other
  /\ UNCHANGED <<cls, atexit_setup, hooks, calling, warned, exited,
                 handlers, instances, fwHandlers, made, names, lvl, oldlevels,
                 oldhandlers, records, argobj, scope, swapped, mark,
                 sent, orig, twice,
                 reinstalled, nest>>

\* logger.addHandler(H0)
AddHandler(ch) ==
  /\ Count(handlers[ch], H0) = 0
  /\ nreconf < MaxReconf
  /\ nreconf' = nreconf + 1
  /\ handlers' = [handlers EXCEPT ![ch] = Append(@, H0)]
  /\ clean' = {}
  /\ last' = Other
  /\ UNCHANGED <<cls, atexit_setup, hooks, calling, warned, exited,
                 level, instances, fwHandlers, made, names, lvl, oldlevels,
                 oldhandlers, records, argobj, scope, swapped, mark,
                 sent, orig, twice,
                 reinstalled, nest>>

\* logger.removeHandler(H0)
RemoveHandler(ch) ==
  /\ Count(handlers[ch], H0) > 0
  /\ nreconf < MaxReconf
  /\ nreconf' = nreconf + 1
  /\ handlers' = [handlers EXCEPT ![ch] = SelectSeq(@, LAMBDA h : h # H0)]
  /\ clean' = {}
  /\ last' = Other
  /\ UNCHANGED <<cls, atexit_setup, hooks, calling, warned, exited,
                 level, instances, fwHandlers, made, names, lvl, oldlevels,
                 oldhandlers, records, argobj, scope, swapped, mark,
                 sent, orig, twice,
                 reinstalled, nest>>

(* ------------------------------------------------------------------ *)
(* Specifications over the same state and methods: the life cycle of   *)
(* one object on loggers that the test reconfigures, two objects       *)
(* sharing the loggers and the registry, one object capturing what is  *)
(* logged, a decorated function, a with block, and the process exit.   *)
(* ------------------------------------------------------------------ *)
\* The names of the object that captures: the root logger, "a", or both.
CaptureNames == {<<None>>, <<"a">>, <<None, "a">>}

\* The object of the specifications of one object.
Capturer == "L1"

NextLife ==
  \/ \E arg \in NameVals, inst \in BOOLEAN, lv \in CaptureLevels :
       Construct(Capturer, FALSE, arg, inst, lv)
  \/ \E arg \in NameTuples, inst \in BOOLEAN, lv \in CaptureLevels :
       Construct(Capturer, TRUE, arg, inst, lv)
  \/ \E ns \in NameTuples, lv \in CaptureLevels : Decorate(Capturer, ns, lv)
  \/ Install(Capturer)
  \/ Uninstall(Capturer)
  \/ \E order \in Orders(instances) : UninstallAll(order)
  \/ Enter(Capturer)
  \/ \E exc \in BOOLEAN : Exit(Capturer, exc)
  \/ \E ch \in Channels, l \in PriorLevels : SetLevel(ch, l)
  \/ \E ch \in Channels : AddHandler(ch)
  \/ \E ch \in Channels : RemoveHandler(ch)

SpecLife == Init /\ [][NextLife]_vars

NextPair ==
  \/ \E i \in Instances, arg \in NameTuples, inst \in BOOLEAN, lv \in CaptureLevels :
       Construct(i, TRUE, arg, inst, lv)
  \/ \E i \in Instances : Install(i)
  \/ \E i \in Instances : Uninstall(i)
  \/ \E order \in Orders(instances) : UninstallAll(order)

SpecPair == InitBasic /\ [][NextPair]_vars

NextCapture ==
  \/ \E arg \in CaptureNames, inst \in BOOLEAN, lv \in CaptureLevels :
       Construct(Capturer, TRUE, arg, inst, lv)
  \/ Install(Capturer)
  \/ Uninstall(Capturer)
  \/ Clear(Capturer)
  \/ \E ch \in Channels, sev \in Severities : Log(ch, sev, ArgRef)
  \/ \E kind \in Kinds : \E expected \in Expected(kind, Capturer) :
       Check(Capturer, kind, expected)

SpecCapture == InitBasic /\ [][NextCapture]_vars

\* The same, with the records' argument changing after they were logged.
NextRender ==
  \/ \E arg \in CaptureNames, inst \in BOOLEAN, lv \in CaptureLevels :
       Construct(Capturer, TRUE, arg, inst, lv)
  \/ Install(Capturer)
  \/ Uninstall(Capturer)
  \/ \E ch \in Channels, sev \in Severities, args \in {NoArgs, ArgRef} :
       Log(ch, sev, args)
  \/ MutateArg
  \/ \E kind \in {"same", "window"} : \E expected \in Expected(kind, Capturer) :
       Check(Capturer, kind, expected)

SpecRender == InitBasic /\ [][NextRender]_vars

\* A function decorated with log_capture, called again and again; its body
\* logs, and checks and clears the object it is passed.
NextDecor ==
  \/ \E ns \in NameTuples, lv \in CaptureLevels : Decorate(Capturer, ns, lv)
  \/ Call(Capturer)
  \/ \E exc \in BOOLEAN : Return(Capturer, exc)
  \/ \E ch \in Channels, sev \in Severities :
       Capturer \in calling /\ Log(ch, sev, ArgRef)
  \/ Capturer \in calling /\ Clear(Capturer)
  \/ \E kind \in {"same", "window"} : \E expected \in Expected(kind, Capturer) :
       Capturer \in calling /\ Check(Capturer, kind, expected)

SpecDecor == InitBasic /\ [][NextDecor]_vars

\* Two objects, each a LogCapture or the object of a log_capture decorator,
\* installed and uninstalled until the process ends.
NextExit ==
  \/ \E i \in Instances, arg \in CaptureNames, inst \in BOOLEAN :
       ~exited /\ Construct(i, TRUE, arg, inst, DefaultLevel)
  \/ \E i \in Instances, ns \in CaptureNames :
       ~exited /\ Decorate(i, ns, DefaultLevel)
  \/ \E i \in Instances : ~exited /\ Install(i)
  \/ \E i \in Instances : ~exited /\ Uninstall(i)
  \/ AtExit

SpecExit == InitBasic /\ [][NextExit]_vars

\* One object capturing in and around a with block.
NextScope ==
  \/ \E arg \in CaptureNames, inst \in BOOLEAN, lv \in CaptureLevels :
       Construct(Capturer, TRUE, arg, inst, lv)
  \/ Install(Capturer)
  \/ Uninstall(Capturer)
  \/ Enter(Capturer)
  \/ \E exc \in BOOLEAN : Exit(Capturer, exc)
  \/ \E ch \in Channels, sev \in Severities : Log(ch, sev, ArgRef)
  \/ \E expected \in Expected("same", Capturer) : Check(Capturer, "same", expected)

SpecScope == InitBasic /\ [][NextScope]_vars

(* ------------------------------------------------------------------ *)
(* The claims.                                                         *)
(* ------------------------------------------------------------------ *)
\* The loggers of snap have the level and the handlers snap holds.
Restored(snap) ==
  \A ch \in DOMAIN snap :
    level[ch] = snap[ch].level /\ handlers[ch] = snap[ch].handlers

\* C1: install() followed immediately by uninstall() leaves every configured
\* logger's level and handlers as they were before install(), for any tuple
\* of names.
C1_RoundTrip ==
  (last.op = "uninstall" /\ last.res = "roundtrip") => Restored(last.pre)

C3_ActualIsSent ==
  (Capturer \in instances /\ Capturer \in clean /\ Capturer \notin twice)
    => actual(records[Capturer], argobj) = sent[Capturer]

\* C4: uninstall() of an object that is not in the registry changes no
\* logger's level or handlers and leaves the registry without the object,
\* also when the loggers were reconfigured since the first uninstall().
C4_SecondUninstallNoop ==
  [][(last'.op = "uninstall" /\ last'.res = "noop")
       => /\ level' = level
          /\ handlers' = handlers
          /\ instances' = instances
          /\ last'.i \notin instances']_vars

\* A second uninstall() has just run on loggers that no longer are as the
\* object saved them.
C4_Witness ==
  /\ last.op = "uninstall" /\ last.res = "noop"
  /\ \E k \in DOMAIN names[last.i] :
       /\ names[last.i][k] \in DOMAIN oldhandlers[last.i]
       /\ \/ handlers[getLogger(names[last.i][k])] # oldhandlers[last.i][names[last.i][k]]
          \/ level[getLogger(names[last.i][k])] # oldlevels[last.i][names[last.i][k]]

\* C5: check() of an installed object (installed once since it was last
\* out of the registry) succeeds when given exactly the records captured
\* since the later of the last clear() and the last install(), also when
\* the object was installed, uninstalled and installed again.
C5_CheckWindow ==
  (last.op = "check" /\ last.exp = "window"
     /\ last.i \in instances /\ last.i \notin twice)
    => last.res = "ok"

\* C6: check() fails when the expected sequence is the captured one with one
\* name, level or message changed, two entries exchanged, one entry added
\* or one entry left out.
C6_AlteredFails ==
  (last.op = "check" /\ last.exp \in AlterKinds) => last.res = "AssertionError"

\* check() was given two captured entries in the other order.
C6_Witness ==
  /\ last.op = "check" /\ last.exp = "order"
  /\ Len(records[last.i]) >= 2

\* C7: after uninstall_all() the registry is empty, and when the registered
\* objects were configured with pairwise disjoint loggers every one of
\* those loggers has the level and handlers it had before the install().
C7_UninstallAllRestores ==
  last.op = "uninstall_all"
    => /\ instances = {}
       /\ last.res = "disjoint" => Restored(last.pre)

\* C8 as claimed: an object that has just entered a with block is installed,
\* however it was constructed.
C8_EnterInstalled ==
  last.op = "enter"
    => /\ last.res = last.i
       /\ last.i \in instances
       /\ \A ch \in ChannelsOf(names[last.i]) : handlers[ch] = <<last.i>>

\* C8 as amended: __enter__ returns the object and changes neither the
\* registry nor any logger, so the object is installed in the block only if
\* it was before; __exit__ leaves it out of the registry, whether the block
\* ended normally or by an exception.
C8_ScopeContract ==
  [][/\ last'.op = "enter"
          => /\ last'.res = last'.i
             /\ instances' = instances
             /\ level' = level
             /\ handlers' = handlers
     /\ last'.op = "exit" => last'.i \notin instances']_vars

\* A with block of an installed object has just ended by an exception.
C8_Witness ==
  last.op = "exit" /\ last.exp = "installed" /\ last.res = "raised"

\* C9: an object constructed with no names or with an empty tuple of names
\* is, once installed, the only handler of the root logger, whose level is
\* the object's.
C9_EmptyMeansRoot ==
  (last.op = "install" /\ names[last.i] \in {<< >>, <<None>>})
    => handlers[ROOT] = <<last.i>> /\ level[ROOT] = lvl[last.i]

\* C10: the message actual() yields for a record is the one rendered when
\* the record was logged, whatever happens to its arguments afterwards.
C10_Snapshot ==
  \A k \in DOMAIN records[Capturer] :
    getMessage(records[Capturer][k], argobj) = records[Capturer][k].snap

\* C11: clear() empties the buffer of an installed or uninstalled object, so
\* that actual() yields nothing and check() with no expected entries
\* succeeds, and changes neither the registry, the saved levels and handlers
\* nor any logger's level and handlers; a record logged right after clear()
\* to a logger the object handles, and admitted by the levels, is captured.
C11_ClearFrame ==
  [][/\ last'.op = "clear"
          => /\ records'[last'.i] = << >>
             /\ actual(records'[last'.i], argobj') = << >>
             /\ last'.res = "ok"
             /\ instances' = instances
             /\ oldlevels' = oldlevels
             /\ oldhandlers' = oldhandlers
             /\ level' = level
             /\ handlers' = handlers
     /\ (/\ last.op = "clear" /\ last'.op = "log"
         /\ last.i \in instances
         /\ Count(Receivers(handlers, Chain(last'.exp)), last.i) > 0
         /\ \E sev \in Severities :
              /\ getLevelName(sev) = last'.res
              /\ sev >= lvl[last.i]
              /\ sev >= getEffectiveLevel(level, last'.exp))
          => /\ Len(records'[last.i]) > 0
             /\ records'[last.i][1].name = last'.exp
             /\ getLevelName(records'[last.i][1].levelno) = last'.res]_vars

\* clear() has just emptied a buffer that held records, of an installed
\* object.
C11_Witness ==
  last.op = "clear" /\ last.exp = "nonempty" /\ last.i \in instances

\* C12: while a function wrapped by log_capture runs, the capture is in the
\* registry; after every call of it, ended by a return or by an exception,
\* the capture is not in the registry and each of its loggers has the level
\* and handlers it had before the call.
C12_WrapRestores ==
  /\ \A i \in calling : i \in instances
  /\ last.op = "return"
       => /\ last.i \notin instances
          /\ Restored(last.pre)

\* C17: when a call of a function wrapped by log_capture starts, the buffer
\* is empty: actual() yields nothing captured in an earlier call.
C17_CallStartsEmpty ==
  last.op = "call" => actual(records[last.i], argobj) = << >>

\* C13: when the process has ended, one warning was issued if an object was
\* left in the registry and none otherwise, and the warning lists the names
\* of exactly the objects in the registry.
C13_ExitAudit ==
  exited
    => /\ instances # {} <=> Len(warned) = 1
       /\ \A k \in DOMAIN warned : warned[k] = [i \in instances |-> names[i]]

\* C14: the audit is registered with atexit once: by the first install() of
\* any object of either class, and by no later install().
C14_HookOnce ==
  /\ Len(hooks) <= 1
  /\ last.op = "install" => Len(hooks) = 1

\* C15: a second install() of an object in the registry, with nothing else
\* touching its loggers, leaves the object's own level and the object itself
\* as the saved state of each of its names; the uninstall() that follows
\* takes the object out of the registry and leaves each of its loggers at
\* the object's level with the object as only handler.
C15_DoubleInstall ==
  /\ (last.op = "install" /\ last.i \in twice /\ nreconf = 0)
       => \A k \in DOMAIN names[last.i] :
            /\ oldlevels[last.i][names[last.i][k]] = lvl[last.i]
            /\ oldhandlers[last.i][names[last.i][k]] = <<last.i>>
  /\ (last.op = "uninstall" /\ last.exp = "twice" /\ nreconf = 0)
       => /\ last.i \notin instances
          /\ \A ch \in ChannelsOf(names[last.i]) :
               level[ch] = lvl[last.i] /\ handlers[ch] = <<last.i>>

\* uninstall() has just run on an object installed twice on two loggers.
C15_Witness ==
  /\ last.op = "uninstall" /\ last.exp = "twice" /\ nreconf = 0
  /\ Cardinality(ChannelsOf(names[last.i])) = 2

\* C16: as long as no object was installed again while in the registry,
\* whenever the registry is empty every logger has its original level and
\* handlers (and so no LogCapture among them), whichever objects were
\* installed and uninstalled, on whichever loggers and in whichever order.
C16_EmptyRegistryRestored ==
  (instances = {} /\ ~reinstalled)
    => level = BasicLevel /\ handlers = BasicHandlers

\* C19: after install() of a, install() of b on a logger of a, and
\* uninstall() of b, each logger the two share has a as its only handler
\* and a's level; after the uninstall() of a that follows, it has the level
\* and handlers it had before a was installed.
C19_Nested ==
  /\ nest.ph = 3
       => \A ch \in ChannelsOf(names[nest.a]) \cap ChannelsOf(names[nest.b]) :
            handlers[ch] = <<nest.a>> /\ level[ch] = lvl[nest.a]
  /\ nest.ph = 4
       => \A ch \in ChannelsOf(names[nest.a]) \cap ChannelsOf(names[nest.b]) :
            /\ level[ch] = nest.pre[ch].level
            /\ handlers[ch] = nest.pre[ch].handlers

\* C18: a record that is logged is appended to an object's buffer at most
\* once, also when the object handles both the logger it is logged on and
\* an ancestor of that logger.
C18_RecordedOnce ==
  [][last'.op = "log"
       => \A i \in Instances : Len(records'[i]) <= Len(records[i]) + 1]_vars

\* C20: uninstall(), called directly or by leaving a with block, leaves the
\* buffer as it is: actual() yields after it what it yielded before.
C20_UninstallKeepsRecords ==
  [][last'.op \in {"uninstall", "exit"}
       => /\ records' = records
          /\ actual(records'[last'.i], argobj') = actual(records[last'.i], argobj)]_vars

\* A with block of an installed object that captured two records has just
\* ended.
C20_Witness ==
  /\ last.op = "exit" /\ last.exp = "installed"
  /\ Len(records[last.i]) = 2

====
